---- MODULE Spec2Model ----
(***************************************************************************)
(* Model of histocartography's interpretability core:                      *)
(*   - SingleInstanceExplainer.explain (single_instance_explainer.py)      *)
(*   - ExplainerMetric (explainer_metrics.py)                              *)
(*                                                                         *)
(* Tensors are fixed-point integers with denominator Scale: an unmasked    *)
(* adjacency entry a is stored as a * Scale, a mask value m/Scale as m.    *)
(***************************************************************************)
EXTENDS Integers, Sequences, FiniteSets, TLC

(* ------------------------------ bounds -------------------------------- *)
MaxEpochs == 3

\* the graph of a call has two nodes
Nodes == {1, 2}
\* entries of the (symmetric) adjacency matrix: the unordered node pairs
Edges == {e \in Nodes \X Nodes : e[1] < e[2]}
\* values a sigmoid mask takes, in units of 1/Scale: strictly inside (0, 1)
MaskLevels == {1, 2}
Scale == Cardinality(MaskLevels) + 1
\* adj_thresh / node_thresh (model_params), in units of 1/Scale
Thresholds == {0, 1}
FeatValues == {1, 2}
Classes == {0, 1}
\* the frozen classifier family: class 0 logit = bias, class 1 logit = mass
Biases == {2, 4}
Runs == {1, 2}
Objs == {1, 2}

(* ------------------------------ helpers ------------------------------- *)
RECURSIVE SumOver(_, _)
SumOver(f, S) ==
  IF S = {} THEN 0
  ELSE LET e == CHOOSE z \in S : TRUE IN f[e] + SumOver(f, S \ {e})

Pow2(n) == 2 ^ n

MinOf(a, b) == IF a <= b THEN a ELSE b

(* ------------------------- the frozen classifier ---------------------- *)
\* self.model(...): per-class logits of a sum-readout classifier with
\* parameter bias, on adjacency a and node features f
Model(bias, a, f) ==
  <<bias * Scale, SumOver(a, Edges) + SumOver(f, Nodes)>>

\* torch.argmax over the logits (first maximal index), as a class id
ArgMax(logits) == IF logits[2] > logits[1] THEN 1 ELSE 0

\* torch.nn.Softmax()(logits): weights 2^(l_i - min l), to be read over
\* their sum; equal vectors iff equal probability vectors
Softmax(logits) ==
  LET m == MinOf(logits[1], logits[2])
  IN  <<Pow2(logits[1] - m), Pow2(logits[2] - m)>>

(* --------------------------- explain(): tensors ----------------------- *)
\* adj / x as float tensors (lines 46-47)
Unmasked(t) == [i \in DOMAIN t |-> t[i] * Scale]

\* ExplainerModel.forward: the inputs with the continuous masks applied
ApplyMask(t, m) == [i \in DOMAIN t |-> t[i] * m[i]]

\* line 98: (masked_adj > adj_thresh) * masked_adj
ThresholdAdj(masked_adj, adj_thresh) ==
  [e \in DOMAIN masked_adj |->
     IF masked_adj[e] > adj_thresh THEN masked_adj[e] ELSE 0]

\* lines 100-101: masked_feats * (node_importance > node_thresh)
ThresholdFeats(masked_feats, node_importance, node_thresh) ==
  [n \in DOMAIN masked_feats |->
     IF node_importance[n] > node_thresh THEN masked_feats[n] ELSE 0]

MaskStates == [adj : [Edges -> MaskLevels], feats : [Nodes -> MaskLevels]]

Graphs == [adj : [Edges -> {0, 1}], x : [Nodes -> FeatValues]]

(* ------------------------------- state -------------------------------- *)
VARIABLES
  model,         \* the frozen classifier (its parameter), self.model
  model_params,  \* [adj_thresh, node_thresh]
  train_params,  \* [num_epochs]
  self,          \* per SingleInstanceExplainer object: the four result fields
  loc,           \* per explain() call: its arguments, locals and position
  hist           \* per explain() call: the locals computed by each iteration

explainVars == <<model, model_params, train_params, self, loc, hist>>

\* ExplainerMetric.normalize_node_concept
VARIABLES
  node_concepts, \* the argument: one #nuclei x #concepts matrix per sample
  stacked,       \* the pooled, rescaled matrix, shrinking as samples leave
  out,           \* the per-sample results collected so far
  npc            \* position: "idle", "stack", "split", "done"

normalizeVars == <<node_concepts, stacked, out, npc>>

\* ExplainerMetric: constructor fields and _compute_concept_histograms
VARIABLES
  keep_numbers,           \* self.keep_numbers
  tumor_classes,          \* self.tumor_classes
  class_pairs,            \* self.class_pairs
  nuclei_importance_list, \* process(): importance scores as passed in
  importance_list,        \* the scores after normalize_node_importance
  concept_list,           \* one #nuclei x #concepts matrix per sample
  label_list,             \* one label per sample
  hk, ht,                 \* loop position: index into keep_numbers, class t
  kept,                   \* np.argsort(s)[:k] of each sample of class t
  concepts,               \* the pooled rows of class t (line 124)
  all_histograms,         \* (k, t) -> one histogram per concept
  hpc                     \* position: "idle", "normalize", "hist", "done",
                          \* "error"

histVars == <<nuclei_importance_list, importance_list, concept_list,
              label_list, hk, ht, kept, concepts, hpc>>

tableVars == <<keep_numbers, tumor_classes, class_pairs, all_histograms>>

\* ExplainerMetric._compute_hist_distances
VARIABLES
  n_concepts,    \* the argument
  k_id, tx, ty,  \* loop position (0-based, as in the code)
  omega,         \* the running class-pair index
  all_distances, \* (k_id, omega, concept_id) -> distance
  dpc            \* position: "idle", "alloc", "dist", "done", "error"

distVars == <<n_concepts, k_id, tx, ty, omega, all_distances, dpc>>

\* ExplainerMetric.process, after the distance stage
VARIABLES
  all_aucs,      \* (class_pair_id, concept_id) -> area under the curve
  ppc            \* position: "idle", "distances", "done", "error"

processVars == <<all_aucs, ppc>>

metricVars == <<normalizeVars, histVars, tableVars, distVars, processVars>>

\* a local not yet bound / a field still None
Unbound == <<>>

\* __init__ lines 30-33
NewObject ==
  [adj_explanation |-> Unbound, node_feats_explanation |-> Unbound,
   probs_explanation |-> Unbound, node_importance |-> Unbound]

NewCall(o, g, l, p) ==
  [pc |-> p, obj |-> o, adj |-> g.adj, x |-> g.x, label |-> l,
   init_probs |-> Unbound, init_pred_label |-> 0,
   mask |-> Unbound, probs |-> Unbound, step |-> 0, opt_steps |-> 0,
   ret |-> Unbound]

\* lines 63-66 and 126-129: the values assigned to the object's fields
Explanation(adj, feats, probs, importance) ==
  [adj_explanation |-> adj, node_feats_explanation |-> feats,
   probs_explanation |-> probs, node_importance |-> importance]

DefaultGraph == [adj |-> [e \in Edges |-> 1], x |-> [n \in Nodes |-> 1]]

InitConfig ==
  /\ model \in Biases
  /\ model_params \in [adj_thresh : Thresholds, node_thresh : Thresholds]
  /\ train_params \in [num_epochs : 0..MaxEpochs]
  /\ self = [o \in Objs |-> NewObject]
  /\ hist = [r \in Runs |-> <<>>]

\* no metric computation under way
IdleNormalize ==
  /\ node_concepts = <<>>
  /\ stacked = <<>>
  /\ out = <<>>
  /\ npc = "idle"

IdleHistograms ==
  /\ nuclei_importance_list = <<>>
  /\ importance_list = <<>>
  /\ concept_list = <<>>
  /\ label_list = <<>>
  /\ hk = 0
  /\ ht = 0
  /\ kept = <<>>
  /\ concepts = <<>>
  /\ hpc = "idle"

IdleTables ==
  /\ keep_numbers = <<>>
  /\ tumor_classes = <<>>
  /\ class_pairs = <<>>
  /\ all_histograms = <<>>

IdleDistances ==
  /\ n_concepts = 0
  /\ k_id = 0
  /\ tx = 0
  /\ ty = 0
  /\ omega = 0
  /\ all_distances = <<>>
  /\ dpc = "idle"

IdleProcess ==
  /\ all_aucs = <<>>
  /\ ppc = "idle"

IdleMetric ==
  IdleNormalize /\ IdleHistograms /\ IdleTables /\ IdleDistances /\ IdleProcess

\* one explain() call
InitExplain ==
  /\ IdleMetric
  /\ InitConfig
  /\ \E g \in Graphs, l \in Classes :
       loc = [r \in Runs |-> IF r = 1 THEN NewCall(1, g, l, "start")
                             ELSE NewCall(2, DefaultGraph, 0, "idle")]

(* --------------------------- explain(): steps ------------------------- *)
OverwritesIfGroundTruth(pred_label, init_pred_label, label) == pred_label = label

OverwritesAlways(pred_label, init_pred_label, label) == TRUE

\* line 125: the current iteration replaces the stored explanation iff its
\* predicted label is the original predicted label
Overwrites(pred_label, init_pred_label, label) == pred_label = init_pred_label

OnDriftContinue == "loop"

\* line 132: break
OnDrift == "return"

ReturnValueLatestProbs(s, init_probs, probs) ==
  [masked_adj |-> s.adj_explanation, masked_feats |-> s.node_feats_explanation,
   probs_before |-> probs, probs_after |-> probs,
   node_importance |-> s.node_importance]

\* line 139: the returned tuple
ReturnValue(s, init_probs, probs) ==
  [masked_adj |-> s.adj_explanation, masked_feats |-> s.node_feats_explanation,
   probs_before |-> init_probs, probs_after |-> probs,
   node_importance |-> s.node_importance]

\* lines 40-69: first classifier call, explainer construction, reset of the
\* object's result fields
Start(r) ==
  /\ loc[r].pc = "start"
  /\ \E m \in MaskStates :
       LET c == loc[r]
           init_logits == Model(model, Unmasked(c.adj), Unmasked(c.x))
       IN  /\ loc' = [loc EXCEPT ![r] =
                 [c EXCEPT !.pc = "loop",
                           !.init_probs = Softmax(init_logits),
                           !.init_pred_label = ArgMax(init_logits),
                           !.mask = m]]
           /\ self' = [self EXCEPT ![c.obj] =
                 Explanation(Unmasked(c.adj), Unmasked(c.x),
                             Softmax(init_logits), m.feats)]
  /\ UNCHANGED <<model, model_params, train_params, hist>>
  /\ UNCHANGED metricVars

\* lines 93-137: one pass of the loop body
Iterate(r) ==
  /\ loc[r].pc = "loop"
  /\ loc[r].step < train_params.num_epochs
  /\ LET c == loc[r]
         \* line 94: explainer() evaluates the classifier on the inputs
         \* under the continuous masks
         cont_adj == ApplyMask(c.adj, c.mask.adj)
         cont_feats == ApplyMask(c.x, c.mask.feats)
         logits == Model(model, cont_adj, cont_feats)
         masked_adj == ThresholdAdj(cont_adj, model_params.adj_thresh)
         node_importance == c.mask.feats
         masked_feats == ThresholdFeats(cont_feats, node_importance,
                                        model_params.node_thresh)
         probs == Softmax(logits)
         pred_label == ArgMax(logits)
     IN  /\ hist' = [hist EXCEPT ![r] =
               Append(@, [pred_label |-> pred_label, probs |-> probs,
                          masked_adj |-> masked_adj,
                          masked_feats |-> masked_feats,
                          node_importance |-> node_importance])]
         /\ IF Overwrites(pred_label, c.init_pred_label, c.label)
            THEN /\ self' = [self EXCEPT ![c.obj] =
                       Explanation(masked_adj, masked_feats, probs,
                                   node_importance)]
                 \* lines 134-137: one optimizer step moves the masks
                 /\ \E m \in MaskStates :
                      loc' = [loc EXCEPT ![r] =
                         [c EXCEPT !.probs = probs, !.mask = m,
                                   !.step = c.step + 1,
                                   !.opt_steps = c.opt_steps + 1]]
            ELSE /\ self' = self
                 /\ loc' = [loc EXCEPT ![r] =
                       [c EXCEPT !.probs = probs, !.pc = OnDrift]]
  /\ UNCHANGED <<model, model_params, train_params>>
  /\ UNCHANGED metricVars

\* line 93: the range is exhausted
Exhaust(r) ==
  /\ loc[r].pc = "loop"
  /\ loc[r].step >= train_params.num_epochs
  /\ loc' = [loc EXCEPT ![r].pc = "return"]
  /\ UNCHANGED <<model, model_params, train_params, self, hist>>
  /\ UNCHANGED metricVars

\* line 139: probs is a local bound only inside the loop body
Return(r) ==
  /\ loc[r].pc = "return"
  /\ IF loc[r].probs = Unbound
     THEN loc' = [loc EXCEPT ![r].pc = "error"]
     ELSE loc' = [loc EXCEPT ![r].pc = "done",
                             ![r].ret = ReturnValue(self[loc[r].obj],
                                          loc[r].init_probs, loc[r].probs)]
  /\ UNCHANGED <<model, model_params, train_params, self, hist>>
  /\ UNCHANGED metricVars

NextExplain == \E r \in Runs : Start(r) \/ Iterate(r) \/ Exhaust(r) \/ Return(r)

vars == <<explainVars, metricVars>>

Spec == InitExplain /\ [][NextExplain]_vars

\* two explain() calls on different graphs, on one object or on two
InitConc ==
  /\ IdleMetric
  /\ model \in Biases
  /\ model_params = [adj_thresh |-> 1, node_thresh |-> 1]
  /\ train_params = [num_epochs |-> 1]
  /\ self = [o \in Objs |-> NewObject]
  /\ hist = [r \in Runs |-> <<>>]
  /\ \E g \in Graphs, o \in Objs :
       /\ g # DefaultGraph
       /\ loc = [r \in Runs |-> IF r = 1 THEN NewCall(1, g, 0, "start")
                                ELSE NewCall(o, DefaultGraph, 0, "start")]

SpecConc == InitConc /\ [][NextExplain]_vars

(* ===================== claims about explain() ========================= *)
Done(r) == loc[r].pc = "done"

Preserved(r, i) == hist[r][i].pred_label = loc[r].init_pred_label

\* the iterations of call r that kept the original predicted label
PreservedIters(r) == {i \in DOMAIN hist[r] : Preserved(r, i)}

Drifted(r) == \E i \in DOMAIN hist[r] : ~Preserved(r, i)

LastOf(S) == CHOOSE i \in S : \A j \in S : j <= i

\* the classifier's label on the unmasked graph of call r
OriginalLabel(r) ==
  ArgMax(Model(model, Unmasked(loc[r].adj), Unmasked(loc[r].x)))

\* C1: the classifier, re-evaluated on the returned masked adjacency and
\* masked features, predicts the label it predicted on the unmasked graph.
C1_ReturnedExplanationKeepsLabel ==
  \A r \in Runs :
    Done(r) =>
      ArgMax(Model(model, loc[r].ret.masked_adj, loc[r].ret.masked_feats))
        = OriginalLabel(r)

\* C2: the returned probs_after is the probability vector of the last
\* iteration whose predicted label equalled the original predicted label.
C2_ProbsAfterIsBestIteration ==
  \A r \in Runs :
    (Done(r) /\ PreservedIters(r) # {}) =>
      loc[r].ret.probs_after = hist[r][LastOf(PreservedIters(r))].probs

\* C3: the loop halts at the first iteration whose label differs: that
\* iteration and everything after it evaluates nothing more, overwrites no
\* stored result and takes no optimizer step.
C3_HaltsAtFirstDrift ==
  [][\A r \in Runs :
       LET quiet == /\ self'[loc[r].obj] = self[loc[r].obj]
                    /\ loc'[r].mask = loc[r].mask
                    /\ loc'[r].opt_steps = loc[r].opt_steps
       IN  /\ Drifted(r) => (hist'[r] = hist[r] /\ quiet)
           /\ (~Drifted(r) /\ Drifted(r)') =>
                (quiet /\ loc'[r].pc = "return")]_vars

C3_Witness ==
  \E r \in Runs :
    /\ Done(r) /\ Drifted(r)
    /\ Len(hist[r]) = 2 /\ train_params.num_epochs > 2
    /\ loc[r].opt_steps = 1

\* C4: an iteration overwrites the stored explanation only if its label is
\* the original predicted label, and stops the loop exactly when it is not,
\* whatever the ground-truth label is.
C4_OverwriteIffPreserved ==
  [][\A r \in Runs :
       hist'[r] # hist[r] =>
         LET i == Len(hist'[r])
             e == hist'[r][i]
             same == e.pred_label = loc[r].init_pred_label
         IN  /\ self'[loc[r].obj] # self[loc[r].obj] => same
             /\ same => self'[loc[r].obj] =
                  Explanation(e.masked_adj, e.masked_feats, e.probs,
                              e.node_importance)
             /\ same <=> loc'[r].pc = "loop"
             /\ ~same <=> loc'[r].pc = "return"]_vars

\* an overwrite under a ground-truth label that is not the predicted one
C4_Witness ==
  \E r \in Runs :
    /\ loc[r].pc = "loop" /\ Len(hist[r]) = 1
    /\ loc[r].label # loc[r].init_pred_label
    /\ Preserved(r, 1)
    /\ self[loc[r].obj].adj_explanation = hist[r][1].masked_adj
    /\ self[loc[r].obj].adj_explanation # Unmasked(loc[r].adj)

\* C5: on drift at iteration 0 explain() returns, without error, the
\* unmasked input adjacency and features.
C5_DriftAtZeroReturnsUnmasked ==
  \A r \in Runs :
    (Len(hist[r]) >= 1 /\ ~Preserved(r, 1)) =>
      /\ loc[r].pc # "error"
      /\ Done(r) => /\ loc[r].ret.masked_adj = Unmasked(loc[r].adj)
                    /\ loc[r].ret.masked_feats = Unmasked(loc[r].x)

C5_Witness ==
  \E r \in Runs : Done(r) /\ Len(hist[r]) = 1 /\ ~Preserved(r, 1)

\* C6: probs_before is the classifier's output on the unmasked graph,
\* fixed before the loop and returned unchanged for every step budget,
\* with or without early stop.
C6_ProbsBeforeIsUnmasked ==
  \A r \in Runs :
    LET unmasked == Softmax(Model(model, Unmasked(loc[r].adj),
                                  Unmasked(loc[r].x)))
    IN  /\ loc[r].pc \in {"loop", "return", "done", "error"} =>
             loc[r].init_probs = unmasked
        /\ Done(r) => loc[r].ret.probs_before = unmasked

C6_Witness ==
  \E r \in Runs :
    /\ Done(r) /\ Drifted(r) /\ Len(hist[r]) = 2
    /\ loc[r].ret.probs_before # loc[r].ret.probs_after
    /\ loc[r].ret.probs_before # hist[r][1].probs

\* the result call r returns when no other call touches its object: the
\* explanation of its last label-preserving iteration, else the unmasked
\* inputs with the initial node mask
AloneResult(r) ==
  LET S == PreservedIters(r)
      e == hist[r][LastOf(S)]
      best == IF S = {}
              THEN Explanation(Unmasked(loc[r].adj), Unmasked(loc[r].x),
                               loc[r].init_probs, hist[r][1].node_importance)
              ELSE Explanation(e.masked_adj, e.masked_feats, e.probs,
                               e.node_importance)
  IN  ReturnValue(best, loc[r].init_probs, hist[r][Len(hist[r])].probs)

\* C7: under any interleaving of two calls, each returns what it returns
\* when executed alone.
C7_CallsAreIndependent ==
  \A r \in Runs : Done(r) => loc[r].ret = AloneResult(r)

\* C15: for every step budget explain() ends by returning a result, after
\* at most num_epochs iterations and with one optimizer step per iteration
\* that kept the label; with a budget of 0 the result is the unmasked input.
C15_ReturnsWithinBudget ==
  \A r \in Runs :
    /\ loc[r].pc # "error"
    /\ Len(hist[r]) <= train_params.num_epochs
    /\ loc[r].opt_steps = Cardinality(PreservedIters(r))
    /\ (Done(r) /\ train_params.num_epochs = 0) =>
         /\ loc[r].ret.masked_adj = Unmasked(loc[r].adj)
         /\ loc[r].ret.masked_feats = Unmasked(loc[r].x)

(* ============ ExplainerMetric.normalize_node_concept ================== *)
MaxSamples == 2

\* rows of a concept matrix: concept 1 and concept 2 of one nucleus
ConceptRows == {0, 1, 2} \X {5, 7}
Concepts == {1, 2}
NodeCounts == {1, 2}

ConceptMatrices == UNION {[1..n -> ConceptRows] : n \in NodeCounts}

ConceptLists == UNION {[1..m -> ConceptMatrices] : m \in 1..MaxSamples}

\* no explain() call under way
IdleExplain ==
  /\ model = 2
  /\ model_params = [adj_thresh |-> 0, node_thresh |-> 0]
  /\ train_params = [num_epochs |-> 0]
  /\ self = [o \in Objs |-> NewObject]
  /\ hist = [r \in Runs |-> <<>>]
  /\ loc = [r \in Runs |-> NewCall(r, DefaultGraph, 0, "idle")]

\* np.concatenate(arrays, axis=0)
RECURSIVE Concatenate(_)
Concatenate(arrays) ==
  IF arrays = <<>> THEN <<>>
  ELSE Head(arrays) \o Concatenate(Tail(arrays))

ColMin(m, c) == CHOOSE v \in {m[i][c] : i \in DOMAIN m} :
                  \A i \in DOMAIN m : v <= m[i][c]

ColMax(m, c) == CHOOSE v \in {m[i][c] : i \in DOMAIN m} :
                  \A i \in DOMAIN m : v >= m[i][c]

\* sklearn minmax_scale on a 2-D array: per column (x - min) / (max - min),
\* a zero range being replaced by 1; a value is the fraction <<num, den>>
MinMaxScale(m) ==
  [i \in DOMAIN m |->
     [c \in DOMAIN m[i] |->
        LET range == ColMax(m, c) - ColMin(m, c)
        IN  <<m[i][c] - ColMin(m, c), IF range = 0 THEN 1 ELSE range>>]]

\* line 163: stacked[:s.shape[0], :]
FirstRows(a, n) == SubSeq(a, 1, n)

KeepAllRows(a, n) == a

\* line 164: np.delete(stacked, list(range(s.shape[0])), axis=0)
DeleteRows(a, n) == SubSeq(a, n + 1, Len(a))

InitNormalize ==
  /\ IdleExplain
  /\ IdleHistograms
  /\ IdleTables
  /\ IdleDistances
  /\ IdleProcess
  /\ node_concepts \in ConceptLists
  /\ stacked = <<>>
  /\ out = <<>>
  /\ npc = "stack"

\* lines 159-160 and 167
Stack ==
  /\ npc = "stack"
  /\ stacked' = MinMaxScale(Concatenate(node_concepts))
  /\ out' = <<>>
  /\ npc' = "split"
  /\ UNCHANGED <<node_concepts, explainVars, histVars, tableVars, distVars, processVars>>

\* lines 168-170, extract_and_drop (lines 162-165) for the next sample
ExtractAndDrop ==
  /\ npc = "split"
  /\ Len(out) < Len(node_concepts)
  /\ LET s == node_concepts[Len(out) + 1]
     IN  /\ out' = Append(out, FirstRows(stacked, Len(s)))
         /\ stacked' = DeleteRows(stacked, Len(s))
  /\ UNCHANGED <<node_concepts, npc, explainVars, histVars, tableVars, distVars, processVars>>

\* line 172
NormalizeReturn ==
  /\ npc = "split"
  /\ Len(out) = Len(node_concepts)
  /\ npc' = "done"
  /\ UNCHANGED <<node_concepts, stacked, out, explainVars, histVars, tableVars, distVars, processVars>>

NextNormalize == Stack \/ ExtractAndDrop \/ NormalizeReturn

SpecNormalize == InitNormalize /\ [][NextNormalize]_vars

(* --------------- claims about normalize_node_concept ------------------ *)
Pooled == Concatenate(node_concepts)

\* the cells (sample, row, concept) of the input
Cells ==
  {<<i, r, c>> \in (DOMAIN node_concepts) \X (1..Len(Pooled)) \X Concepts :
     r \in DOMAIN node_concepts[i]}

ShapePreserved ==
  /\ Len(out) = Len(node_concepts)
  /\ \A i \in DOMAIN out :
       /\ Len(out[i]) = Len(node_concepts[i])
       /\ \A r \in DOMAIN out[i] : DOMAIN out[i][r] = Concepts

\* out[i][r][c] is x rescaled linearly by the pooled min and max of column c
Rescaled(i, r, c) ==
  LET x == node_concepts[i][r][c]
      v == out[i][r][c]
      lo == ColMin(Pooled, c)
      hi == ColMax(Pooled, c)
  IN  /\ v[2] > 0 /\ 0 <= v[1] /\ v[1] <= v[2]
      /\ v[1] * (hi - lo) = (x - lo) * v[2]
      /\ x = lo => v[1] = 0

\* C10 as stated: one output per sample, shapes kept, the concatenation is
\* the pooled matrix rescaled per column by the pooled min/max, all values
\* in [0,1], the column minimum at 0 and the column maximum at 1.
C10_NormalizeAsClaimed ==
  npc = "done" =>
    /\ ShapePreserved
    /\ Concatenate(out) = MinMaxScale(Pooled)
    /\ \A cell \in Cells :
         /\ Rescaled(cell[1], cell[2], cell[3])
         /\ node_concepts[cell[1]][cell[2]][cell[3]] = ColMax(Pooled, cell[3])
              => out[cell[1]][cell[2]][cell[3]][1]
                   = out[cell[1]][cell[2]][cell[3]][2]

\* C10 amended: the column maximum maps to 1 only in a column that is not
\* constant over the pooled set; a constant column maps to 0 everywhere.
C10_NormalizeRoundTrip ==
  npc = "done" =>
    /\ ShapePreserved
    /\ Concatenate(out) = MinMaxScale(Pooled)
    /\ \A cell \in Cells :
         LET c == cell[3]
             x == node_concepts[cell[1]][cell[2]][c]
             v == out[cell[1]][cell[2]][c]
         IN  /\ Rescaled(cell[1], cell[2], c)
             /\ (x = ColMax(Pooled, c) /\ ColMax(Pooled, c) > ColMin(Pooled, c))
                  => v[1] = v[2]
             /\ ColMax(Pooled, c) = ColMin(Pooled, c) => v[1] = 0

\* two samples of different sizes, a constant column and a column holding
\* its minimum, an intermediate value and its maximum
C10_Witness ==
  /\ npc = "done"
  /\ Len(node_concepts) = 2
  /\ Len(node_concepts[1]) = 1 /\ Len(node_concepts[2]) = 2
  /\ ColMax(Pooled, 2) = ColMin(Pooled, 2)
  /\ out[1][1][1] = <<1, 2>>
  /\ out[2][1][1] = <<2, 2>> /\ out[2][2][1] = <<0, 2>>

(* ============ ExplainerMetric._compute_concept_histograms ============= *)
MaxKeep == 3
NumBins == 3

\* importance scores and (single) concept values of the samples
ImportanceValues == {1, 2}
HistConceptValues == {0, 1}
HistConcepts == {1}

HistSamples ==
  UNION {[imp : [1..n -> ImportanceValues],
          concept : [1..n -> [HistConcepts -> HistConceptValues]]] :
         n \in NodeCounts}

Labels == {0, 1, 2}

\* tumor_classes as the constructor parses them
HistClassLists == {<<0>>, <<0, 1>>, <<1, 2>>}

\* number of samples handed to the histogram stage
HistSampleCounts == {1, 2}

\* strictly increasing lists of two truncation sizes
KeepNumberLists ==
  {kn \in [1..2 -> 1..MaxKeep] : kn[1] < kn[2]}

\* itertools.combinations(seq, 2)
RECURSIVE PairsFrom(_, _, _)
PairsFrom(seq, i, j) ==
  IF i >= Len(seq) THEN <<>>
  ELSE IF j > Len(seq) THEN PairsFrom(seq, i + 1, i + 2)
  ELSE <<<<seq[i], seq[j]>>>> \o PairsFrom(seq, i, j + 1)

Combinations2(seq) == PairsFrom(seq, 1, 2)

\* __init__ lines 30-35
Construct(kn, tc) ==
  /\ keep_numbers = kn
  /\ tumor_classes = tc
  /\ class_pairs = Combinations2(tc)

n_tumors == Len(tumor_classes)

VecMin(x) == CHOOSE v \in {x[i] : i \in DOMAIN x} : \A i \in DOMAIN x : v <= x[i]

VecMax(x) == CHOOSE v \in {x[i] : i \in DOMAIN x} : \A i \in DOMAIN x : v >= x[i]

\* sklearn minmax_scale on a 1-D array, values as fractions <<num, den>>
MinMaxScale1D(x) ==
  [i \in DOMAIN x |->
     <<x[i] - VecMin(x), IF VecMax(x) = VecMin(x) THEN 1 ELSE VecMax(x) - VecMin(x)>>]

\* a <= b for fractions with positive denominators
FracLeq(a, b) == a[1] * b[2] <= b[1] * a[2]

IndexOrders(n) ==
  {p \in [1..n -> 1..n] : \A i, j \in 1..n : p[i] = p[j] => i = j}

\* np.argsort(s): any ordering of the indices by non-decreasing score (the
\* default sort is not stable, so the order among equal scores is open)
Argsorts(s) ==
  {p \in IndexOrders(Len(s)) :
     \A i \in 1..(Len(s) - 1) : FracLeq(s[p[i]], s[p[i + 1]])}

TakeLast(p, k) == SubSeq(p, Len(p) - MinOf(k, Len(p)) + 1, Len(p))

\* the slice [:k]
TakeFirst(p, k) == SubSeq(p, 1, MinOf(k, Len(p)))

\* [.. for l, s in zip(label_list, ..) if l == t]: the sample indices of t
RECURSIVE SelectIdx(_, _, _)
SelectIdx(labels, t, i) ==
  IF i > Len(labels) THEN <<>>
  ELSE (IF labels[i] = t THEN <<i>> ELSE <<>>) \o SelectIdx(labels, t, i + 1)

\* line 123 for every sample of the class: the possible index lists
KeptChoices(idx, k) ==
  {f \in [DOMAIN idx -> UNION {[1..n -> 1..m] : n \in NodeCounts, m \in NodeCounts}] :
     \A j \in DOMAIN idx :
       \E p \in Argsorts(importance_list[idx[j]]) : f[j] = TakeFirst(p, k)}

\* lines 123-124: the rows c[np.argsort(s)[:k]] of each sample, concatenated
PoolRows(idx, choice) ==
  Concatenate([j \in DOMAIN idx |->
     [r \in DOMAIN choice[j] |-> concept_list[idx[j]][choice[j][r]]]])

\* lines 185-186: np.linspace(min, max, num_bins) gives num_bins edges, so
\* num_bins - 1 bins; density = count / (total * width), as <<num, den>>
BuildHist(values) ==
  LET lo == VecMin(values)
      hi == VecMax(values)
      nb == NumBins - 1
      BinOf(v) == IF hi = lo \/ v = hi THEN nb
                  ELSE ((v - lo) * nb) \div (hi - lo) + 1
  IN  [b \in 1..nb |->
         <<Cardinality({i \in DOMAIN values : BinOf(values[i]) = b}) * nb,
           Len(values) * (hi - lo)>>]

Column(m, c) == [i \in DOMAIN m |-> m[i][c]]

InitHistograms ==
  /\ IdleExplain
  /\ IdleNormalize
  /\ IdleDistances
  /\ IdleProcess
  /\ \E kn \in KeepNumberLists, tc \in HistClassLists : Construct(kn, tc)
  /\ \E m \in HistSampleCounts :
       \E samples \in [1..m -> HistSamples] :
         /\ nuclei_importance_list = [i \in 1..m |-> samples[i].imp]
         /\ concept_list = [i \in 1..m |-> samples[i].concept]
         /\ label_list \in [1..m -> Labels]
  /\ importance_list = <<>>
  /\ hk = 1
  /\ ht = 0
  /\ kept = <<>>
  /\ concepts = <<>>
  /\ all_histograms = <<>>
  /\ hpc = "normalize"

\* process line 57, normalize_node_importance (lines 142-143)
NormalizeImportance ==
  /\ hpc = "normalize"
  /\ importance_list' = [i \in DOMAIN nuclei_importance_list |->
                           MinMaxScale1D(nuclei_importance_list[i])]
  /\ hpc' = "hist"
  /\ UNCHANGED <<nuclei_importance_list, concept_list, label_list, hk, ht,
                 kept, concepts, tableVars, normalizeVars, distVars, explainVars, processVars>>

\* lines 114-129: the body of the loops for one (k, t)
HistogramStep ==
  /\ hpc = "hist"
  /\ hk <= Len(keep_numbers)
  /\ LET k == keep_numbers[hk]
         idx == SelectIdx(label_list, ht, 1)
         \* line 115: all_histograms[k] = {} on entering the loop over t
         old == IF ht = 0 THEN {q \in DOMAIN all_histograms : q[1] # k}
                ELSE DOMAIN all_histograms
     IN  IF idx = <<>>
         THEN \* np.concatenate of an empty list raises ValueError
              /\ hpc' = "error"
              /\ UNCHANGED <<hk, ht, kept, concepts, all_histograms>>
         ELSE /\ \E choice \in KeptChoices(idx, k) :
                   /\ kept' = choice
                   /\ concepts' = PoolRows(idx, choice)
                   /\ all_histograms' =
                        [q \in old \cup {<<k, ht>>} |->
                           IF q = <<k, ht>>
                           THEN [c \in HistConcepts |->
                                   BuildHist(Column(PoolRows(idx, choice), c))]
                           ELSE all_histograms[q]]
              /\ IF ht + 1 < n_tumors
                 THEN ht' = ht + 1 /\ hk' = hk
                 ELSE ht' = 0 /\ hk' = hk + 1
              /\ hpc' = hpc
  /\ UNCHANGED <<nuclei_importance_list, importance_list, concept_list,
                 label_list, keep_numbers, tumor_classes, class_pairs,
                 normalizeVars, distVars, explainVars, processVars>>

\* line 130
HistogramsReturn ==
  /\ hpc = "hist"
  /\ hk > Len(keep_numbers)
  /\ hpc' = "done"
  /\ UNCHANGED <<nuclei_importance_list, importance_list, concept_list,
                 label_list, hk, ht, kept, concepts, tableVars,
                 normalizeVars, distVars, explainVars, processVars>>

NextHistograms == NormalizeImportance \/ HistogramStep \/ HistogramsReturn

SpecHistograms == InitHistograms /\ [][NextHistograms]_vars

(* ------------- claims about _compute_concept_histograms --------------- *)
\* the (k, t) whose pool the locals kept and concepts hold
LastK == IF ht > 0 THEN keep_numbers[hk] ELSE keep_numbers[hk - 1]

LastT == IF ht > 0 THEN ht - 1 ELSE n_tumors - 1

RECURSIVE SumKept(_, _, _)
SumKept(idx, k, j) ==
  IF j > Len(idx) THEN 0
  ELSE MinOf(k, Len(concept_list[idx[j]])) + SumKept(idx, k, j + 1)

C9_WitnessCut ==
  /\ kept # <<>>
  /\ LastK = 1
  /\ \E j \in DOMAIN kept :
       LET score == nuclei_importance_list[SelectIdx(label_list, LastT, 1)[j]]
       IN  Len(score) = 2 /\ score[1] > score[2] /\ kept[j] = <<2>>

\* C12: the pool of (k, t) holds exactly the samples whose label is the
\* t-th configured class label, whatever the values of tumor_classes are,
\* and no sample with a configured label is left out of every pool.
C12_HistogramOfConfiguredClass ==
  /\ kept # <<>> =>
       LET idxT == SelectIdx(label_list, tumor_classes[LastT + 1], 1)
       IN  /\ Len(kept) = Len(idxT)
           /\ \A j \in DOMAIN kept : \A r \in DOMAIN kept[j] :
                kept[j][r] <= Len(concept_list[idxT[j]])
           /\ concepts = PoolRows(idxT, kept)
  /\ hpc = "done" =>
       \A i \in DOMAIN label_list :
         label_list[i] \in {tumor_classes[t] : t \in DOMAIN tumor_classes}
           => \E q \in DOMAIN all_histograms : label_list[i] = q[2]

\* the (k, t, concept) entries of the histogram table
HistEntries ==
  {e \in (DOMAIN all_histograms) \X HistConcepts :
     e[2] \in DOMAIN all_histograms[e[1]]}

\* C13: every histogram stored for a (k, class, concept) entry is a density
\* array with as many entries as the configured bin count.
C13_HistogramHasNumBins ==
  \A e \in HistEntries : Len(all_histograms[e[1]][e[2]]) = NumBins

\* C14: no histogram entry is a quotient by zero, also when all the pooled
\* values of the concept are equal (a single node included).
C14_NoDivisionByZero ==
  \A e \in HistEntries :
    \A b \in DOMAIN all_histograms[e[1]][e[2]] :
      all_histograms[e[1]][e[2]][b][2] # 0

(* ============== ExplainerMetric._compute_hist_distances =============== *)
\* histograms handed to the distance stage: density arrays as fractions
DistHistArrays == {<<<<0, 1>>, <<2, 1>>>>, <<<<1, 1>>, <<1, 1>>>>}

ClassLists == {<<0>>, <<0, 1>>, <<1, 2>>, <<0, 1, 2>>}

ConceptCounts == {1, 2}

Range(seq) == {seq[i] : i \in DOMAIN seq}

FracAbsDiff(a, b) ==
  LET d == a[1] * b[2] - b[1] * a[2]
  IN  <<IF d < 0 THEN 0 - d ELSE d, a[2] * b[2]>>

FracAdd(a, b) == <<a[1] * b[2] + b[1] * a[2], a[2] * b[2]>>

Sorted(u) == LET p == CHOOSE q \in Argsorts(u) : TRUE
             IN  [i \in DOMAIN u |-> u[p[i]]]

RECURSIVE SumAbsDiff(_, _, _)
SumAbsDiff(u, v, i) ==
  IF i > Len(u) THEN <<0, 1>>
  ELSE FracAdd(FracAbsDiff(u[i], v[i]), SumAbsDiff(u, v, i + 1))

\* scipy wasserstein_distance(u_values, v_values) for arrays of one length:
\* the mean absolute difference of the sorted values
Wasserstein(u, v) ==
  LET total == SumAbsDiff(Sorted(u), Sorted(v), 1)
  IN  <<total[1], total[2] * Len(u)>>

IsPairUpToDiagonal(x, y) == x <= y

\* line 88
IsPair(x, y) == x < y

\* np.empty: a cell not yet assigned
Unassigned == <<>>

n_keep_numbers == Len(keep_numbers)

n_class_pairs == Len(class_pairs)

InitDistances ==
  /\ IdleExplain
  /\ IdleNormalize
  /\ IdleHistograms
  /\ IdleProcess
  /\ \E kn \in KeepNumberLists, tc \in ClassLists : Construct(kn, tc)
  /\ n_concepts \in ConceptCounts
  /\ all_histograms \in
       [Range(keep_numbers) \X (0..(Len(tumor_classes) - 1)) ->
          [1..n_concepts -> DistHistArrays]]
  /\ k_id = 0
  /\ tx = 0
  /\ ty = 0
  /\ omega = 0
  /\ all_distances = <<>>
  /\ dpc = "alloc"

\* line 83
Allocate ==
  /\ dpc = "alloc"
  /\ all_distances' =
       [cell \in (0..(n_keep_numbers - 1)) \X (0..(n_class_pairs - 1))
                 \X (0..(n_concepts - 1)) |-> Unassigned]
  /\ dpc' = "dist"
  /\ UNCHANGED <<n_concepts, k_id, tx, ty, omega, tableVars, histVars,
                 normalizeVars, explainVars, processVars>>

\* the loop header advances: next ty, else next tx, else next k_id
Advance(found) ==
  IF ty + 1 < n_tumors
  THEN /\ ty' = ty + 1
       /\ UNCHANGED <<tx, k_id>>
       /\ omega' = omega + found
  ELSE /\ ty' = 0
       /\ IF tx + 1 < n_tumors
          THEN /\ tx' = tx + 1
               /\ k_id' = k_id
               /\ omega' = omega + found
          ELSE \* line 85: omega = 0 for the next k
               /\ tx' = 0
               /\ k_id' = k_id + 1
               /\ omega' = 0

\* lines 84-94: one pass of the loop over ty, for the current k_id and tx
DistanceStep ==
  /\ dpc = "dist"
  /\ k_id < n_keep_numbers
  /\ LET k == keep_numbers[k_id + 1]
     IN  IF IsPair(tx, ty)
         THEN IF omega >= n_class_pairs
                 \/ <<k, tx>> \notin DOMAIN all_histograms
                 \/ <<k, ty>> \notin DOMAIN all_histograms
              THEN \* IndexError / KeyError
                   /\ dpc' = "error"
                   /\ UNCHANGED <<all_distances, omega, k_id, tx, ty>>
              ELSE /\ all_distances' =
                        [cell \in DOMAIN all_distances |->
                           IF cell[1] = k_id /\ cell[2] = omega
                           THEN Wasserstein(
                                  all_histograms[<<k, tx>>][cell[3] + 1],
                                  all_histograms[<<k, ty>>][cell[3] + 1])
                           ELSE all_distances[cell]]
                   /\ dpc' = dpc
                   /\ Advance(1)
         ELSE /\ UNCHANGED <<all_distances, dpc>>
              /\ Advance(0)
  /\ UNCHANGED <<n_concepts, tableVars, histVars, normalizeVars, explainVars, processVars>>

\* line 95
DistancesReturn ==
  /\ dpc = "dist"
  /\ k_id >= n_keep_numbers
  /\ dpc' = "done"
  /\ UNCHANGED <<n_concepts, k_id, tx, ty, omega, all_distances, tableVars,
                 histVars, normalizeVars, explainVars, processVars>>

NextDistances == Allocate \/ DistanceStep \/ DistancesReturn

SpecDistances == InitDistances /\ [][NextDistances]_vars

(* --------------- claims about _compute_hist_distances ----------------- *)
ClassIdx == 0..(n_tumors - 1)

\* the position of (a, b), a < b, among the pairs over ClassIdx in
\* ascending-tuple order
Rank(a, b) ==
  Cardinality({q \in ClassIdx \X ClassIdx :
                 q[1] < q[2] /\ (q[1] < a \/ (q[1] = a /\ q[2] < b))})

\* C8: the class-pair axis has C(n,2) entries, one per unordered pair, in
\* the ascending-tuple order of the constructor's class_pairs, and every
\* cell (k index, pair index, concept) of the table is assigned.
C8_PairAxisOrder ==
  /\ dpc # "error"
  /\ dpc = "done" =>
       /\ 2 * n_class_pairs = n_tumors * (n_tumors - 1)
       /\ DOMAIN all_distances =
            (0..(n_keep_numbers - 1)) \X (0..(n_class_pairs - 1))
              \X (0..(n_concepts - 1))
       /\ \A cell \in DOMAIN all_distances : all_distances[cell] # Unassigned
       /\ tumor_classes = <<0, 1, 2>> =>
            class_pairs = <<<<0, 1>>, <<0, 2>>, <<1, 2>>>>
       /\ \A a, b \in ClassIdx :
            a < b =>
              /\ Rank(a, b) < n_class_pairs
              /\ class_pairs[Rank(a, b) + 1] =
                   <<tumor_classes[a + 1], tumor_classes[b + 1]>>
              /\ \A i \in 0..(n_keep_numbers - 1), c \in 0..(n_concepts - 1) :
                   all_distances[<<i, Rank(a, b), c>>] =
                     Wasserstein(
                       all_histograms[<<keep_numbers[i + 1], a>>][c + 1],
                       all_histograms[<<keep_numbers[i + 1], b>>][c + 1])
       /\ \A a, b, c, d \in ClassIdx :
            (a < b /\ c < d /\ Rank(a, b) = Rank(c, d)) => (a = c /\ b = d)

\* three classes, two concepts, and a table whose pair columns differ
C8_Witness ==
  /\ dpc = "done"
  /\ tumor_classes = <<0, 1, 2>> /\ n_concepts = 2
  /\ all_distances[<<0, 0, 0>>] # all_distances[<<0, 1, 0>>]
  /\ all_distances[<<0, 1, 0>>] # all_distances[<<0, 2, 0>>]
  /\ all_distances[<<1, 2, 1>>] # all_distances[<<0, 2, 1>>]

(* ================= ExplainerMetric.process: the AUC table ============== *)
\* keep_numbers as the constructor parses them: any list of sizes
ProcessKeepNumberLists == UNION {[1..n -> 1..MaxKeep] : n \in {2, 3}}

ProcessConceptCounts == {1}

StrictlyIncreasing(x) == \A i \in 1..(Len(x) - 1) : x[i] < x[i + 1]

\* np.trapz(y, x): the sum of (x[i+1] - x[i]) * (y[i] + y[i+1]) / 2
RECURSIVE Trapz(_, _, _)
Trapz(y, x, i) ==
  IF i >= Len(x) THEN <<0, 1>>
  ELSE LET pair == FracAdd(y[i], y[i + 1])
       IN  FracAdd(<<(x[i + 1] - x[i]) * pair[1], 2 * pair[2]>>,
                   Trapz(y, x, i + 1))

\* sklearn.metrics.auc(x, y) raises ValueError for fewer than two points and
\* for an x that is neither non-decreasing nor non-increasing
AucRaises(x) ==
  \/ Len(x) < 2
  \/ /\ \E i \in 1..(Len(x) - 1) : x[i + 1] < x[i]
     /\ ~(\A i \in 1..(Len(x) - 1) : x[i + 1] <= x[i])

\* sklearn.metrics.auc(x, y): direction * np.trapz(y, x), the direction
\* being -1 for a non-increasing x with at least one decrease
Auc(x, y) ==
  LET area == Trapz(y, x, 1)
  IN  IF \E i \in 1..(Len(x) - 1) : x[i + 1] < x[i]
      THEN <<0 - area[1], area[2]>>
      ELSE area

\* the constructed metric and process() as line 61 has left it: the
\* histograms are there, the distance stage is about to be called
InitProcess ==
  /\ IdleExplain
  /\ IdleNormalize
  /\ IdleHistograms
  /\ \E kn \in ProcessKeepNumberLists, tc \in ClassLists : Construct(kn, tc)
  /\ n_concepts \in ProcessConceptCounts
  /\ all_histograms \in
       [Range(keep_numbers) \X (0..(Len(tumor_classes) - 1)) ->
          [1..n_concepts -> DistHistArrays]]
  /\ k_id = 0
  /\ tx = 0
  /\ ty = 0
  /\ omega = 0
  /\ all_distances = <<>>
  /\ dpc = "alloc"
  /\ all_aucs = <<>>
  /\ ppc = "distances"

\* lines 66-73: the AUC of every (class pair, concept) curve over
\* keep_numbers, and the return
ComputeAucs ==
  /\ ppc = "distances"
  /\ dpc = "done"
  /\ LET cells == (0..(n_class_pairs - 1)) \X (0..(n_concepts - 1))
         curve(cell) == [i \in 1..n_keep_numbers |->
                           all_distances[<<i - 1, cell[1], cell[2]>>]]
     IN  IF cells # {} /\ AucRaises(keep_numbers)
         THEN /\ ppc' = "error"
              /\ all_aucs' = all_aucs
         ELSE /\ ppc' = "done"
              /\ all_aucs' = [cell \in cells |->
                                Auc(keep_numbers, curve(cell))]
  /\ UNCHANGED <<distVars, tableVars, histVars, normalizeVars, explainVars>>

NextProcess == Allocate \/ DistanceStep \/ DistancesReturn \/ ComputeAucs

SpecProcess == InitProcess /\ [][NextProcess]_vars

(* ----------------------- claims about process() ----------------------- *)
\* C11: with a keep_numbers list that is not strictly increasing (a repeated
\* value, or a value smaller than its predecessor) the metric fails and
\* returns no score table.
C11_NonIncreasingKeepNumbersFail ==
  ~StrictlyIncreasing(keep_numbers) => ppc # "done"

====
